---- MODULE Spec2Model ----
(***************************************************************************)
(* bevy_mod_mesh_tools (src/src/lib.rs): attribute accessors,              *)
(* mesh_with_transform, mesh_with_skinned_transform, mesh_append and       *)
(* mesh_empty_default over a Bevy mesh.                                    *)
(*                                                                         *)
(* Numbers.  f32 values are modelled by exact arithmetic:                  *)
(*   a vector is [n, d, r, fin] and stands for n / (d * sqrt(r)), kept in  *)
(*   canonical form (r square-free, gcd(n, d) = 1); fin = FALSE stands for *)
(*   a vector with an infinite or NaN component;                           *)
(*   a matrix is [c, d, fin]: four columns of integers over the common     *)
(*   denominator d (glam is column-major: x_axis, y_axis, z_axis, w_axis). *)
(* Rounding is not modelled: "equal" and "unit length" are exact here and  *)
(* hold up to f32 rounding in the program.                                 *)
(***************************************************************************)
EXTENDS Integers, Sequences, FiniteSets, TLC

VARIABLES dest, src, ret, pre, out, op, view, log

vars == <<dest, src, ret, pre, out, op, view, log>>

(***************************************************************************)
(* Arithmetic helpers                                                      *)
(***************************************************************************)
Abs(x) == IF x < 0 THEN -x ELSE x

RECURSIVE GCD(_, _)
GCD(a, b) == IF b = 0 THEN a ELSE GCD(b, a % b)

GCD4(a, b, c, e) == GCD(GCD(Abs(a), Abs(b)), GCD(Abs(c), Abs(e)))

RECURSIVE SquarePart(_, _, _)
\* the largest s with s*s dividing r, searched upwards from s
SquarePart(r, s, best) ==
    IF s * s > r THEN best
    ELSE SquarePart(r, s + 1, IF r % (s * s) = 0 THEN s ELSE best)

\* the sequence <<F(1), ..., F(n)>>, every element evaluated once
Tabulate(n, F(_)) == [i \in 1..n |-> F(i)] \o <<>>

Min(a, b) == IF a < b THEN a ELSE b

RECURSIVE SetMin(_)
SetMin(S) ==
    LET x == CHOOSE y \in S : TRUE
    IN  IF S = {x} THEN x ELSE Min(x, SetMin(S \ {x}))

(***************************************************************************)
(* glam: Vec3                                                              *)
(***************************************************************************)
\* n / (d * sqrt(r)) in canonical form
Canon(n, d, r) ==
    IF n = <<0, 0, 0>> THEN [n |-> n, d |-> 1, r |-> 1, fin |-> TRUE]
    ELSE LET s  == SquarePart(r, 1, 1)
             dd == d * s
             g  == GCD4(n[1], n[2], n[3], dd)
         IN  [n |-> <<n[1] \div g, n[2] \div g, n[3] \div g>>,
              d |-> dd \div g, r |-> r \div (s * s), fin |-> TRUE]

Vec3(x, y, z) == Canon(<<x, y, z>>, 1, 1)

ZERO == Vec3(0, 0, 0)

NonFiniteVec == [n |-> <<0, 0, 0>>, d |-> 1, r |-> 1, fin |-> FALSE]

Dot(a, b) == a[1] * b[1] + a[2] * b[2] + a[3] * b[3]

\* Vec3::normalize_or_zero: self * length_recip() when that reciprocal is
\* finite and positive, ZERO otherwise (zero, infinite or NaN length)
normalize_or_zero(v) ==
    IF ~v.fin \/ v.n = <<0, 0, 0>> THEN ZERO
    ELSE Canon(v.n, 1, Dot(v.n, v.n))

(***************************************************************************)
(* glam: Mat4, Mat3 (column-major)                                         *)
(***************************************************************************)
RECURSIVE GCDSeq(_, _)
GCDSeq(s, g) == IF s = <<>> THEN g ELSE GCDSeq(Tail(s), GCD(g, Abs(Head(s))))

\* columns c over the denominator d (d # 0), reduced, with d > 0
MatCanon(c, d) ==
    LET g  == GCDSeq(c[1] \o c[2] \o c[3] \o (IF Len(c) = 4 THEN c[4] ELSE <<>>), Abs(d))
        sg == IF d < 0 THEN -1 ELSE 1
    IN  [c |-> Tabulate(Len(c), LAMBDA j : Tabulate(Len(c[j]), LAMBDA i : (sg * c[j][i]) \div g)),
         d |-> (sg * d) \div g, fin |-> TRUE]

NonFiniteMat(k) ==
    [c |-> Tabulate(k, LAMBDA j : Tabulate(k, LAMBDA i : 0)), d |-> 1, fin |-> FALSE]

Mat4Cols(x_axis, y_axis, z_axis, w_axis) == MatCanon(<<x_axis, y_axis, z_axis, w_axis>>, 1)

IDENTITY == Mat4Cols(<<1, 0, 0, 0>>, <<0, 1, 0, 0>>, <<0, 0, 1, 0>>, <<0, 0, 0, 1>>)

\* Mat4 * Mat4
MatMul(a, b) ==
    MatCanon(Tabulate(4, LAMBDA j : Tabulate(4, LAMBDA i :
                 a.c[1][i] * b.c[j][1] + a.c[2][i] * b.c[j][2]
               + a.c[3][i] * b.c[j][3] + a.c[4][i] * b.c[j][4])),
             a.d * b.d)

\* Mat4 + Mat4
MatAdd(a, b) ==
    MatCanon(Tabulate(4, LAMBDA j : Tabulate(4, LAMBDA i :
                 a.c[j][i] * b.d + b.c[j][i] * a.d)),
             a.d * b.d)

\* f32 * Mat4, the scalar being num / den
MatScale(num, den, a) ==
    MatCanon(Tabulate(4, LAMBDA j : Tabulate(4, LAMBDA i : num * a.c[j][i])), den * a.d)

Others(i) == CASE i = 1 -> <<2, 3, 4>> [] i = 2 -> <<1, 3, 4>>
               [] i = 3 -> <<1, 2, 4>> [] OTHER -> <<1, 2, 3>>

\* determinant of the 3x3 block of columns cs and rows rs of the columns c
Det3(c, rs, cs) ==
      c[cs[1]][rs[1]] * (c[cs[2]][rs[2]] * c[cs[3]][rs[3]] - c[cs[3]][rs[2]] * c[cs[2]][rs[3]])
    - c[cs[2]][rs[1]] * (c[cs[1]][rs[2]] * c[cs[3]][rs[3]] - c[cs[3]][rs[2]] * c[cs[1]][rs[3]])
    + c[cs[3]][rs[1]] * (c[cs[1]][rs[2]] * c[cs[2]][rs[3]] - c[cs[2]][rs[2]] * c[cs[1]][rs[3]])

Cofactor(c, row, col) ==
    (IF (row + col) % 2 = 0 THEN 1 ELSE -1) * Det3(c, Others(row), Others(col))

Det4(c) ==
      c[1][1] * Cofactor(c, 1, 1) + c[2][1] * Cofactor(c, 1, 2)
    + c[3][1] * Cofactor(c, 1, 3) + c[4][1] * Cofactor(c, 1, 4)

\* Mat4::inverse: the adjugate times the reciprocal of the determinant; with a
\* zero determinant the reciprocal is infinite and every entry is inf or NaN
inverse(a) ==
    LET det == Det4(a.c)
    IN  IF ~a.fin \/ det = 0 THEN NonFiniteMat(4)
        ELSE MatCanon(Tabulate(4, LAMBDA j : Tabulate(4, LAMBDA i : a.d * Cofactor(a.c, j, i))),
                      det)

transpose(a) ==
    [c |-> Tabulate(4, LAMBDA j : Tabulate(4, LAMBDA i : a.c[i][j])), d |-> a.d, fin |-> a.fin]

\* Mat3 { x_axis: m.x_axis.xyz(), y_axis: m.y_axis.xyz(), z_axis: m.z_axis.xyz() }
Mat3Of(a) ==
    IF ~a.fin THEN NonFiniteMat(3)
    ELSE MatCanon(Tabulate(3, LAMBDA j : Tabulate(3, LAMBDA i : a.c[j][i])), a.d)

\* Mat3::mul_vec3
mul_vec3(a, v) ==
    IF ~a.fin \/ ~v.fin THEN NonFiniteVec
    ELSE Canon(Tabulate(3, LAMBDA i :
                   a.c[1][i] * v.n[1] + a.c[2][i] * v.n[2] + a.c[3][i] * v.n[3]),
               a.d * v.d, v.r)

\* Mat4::transform_point3: x_axis * p.x + y_axis * p.y + z_axis * p.z + w_axis,
\* truncated to xyz (the fourth row is not used); p is rational (p.r = 1)
transform_point3(a, p) ==
    IF ~a.fin \/ ~p.fin THEN NonFiniteVec
    ELSE Canon(Tabulate(3, LAMBDA i :
                   a.c[1][i] * p.n[1] + a.c[2][i] * p.n[2] + a.c[3][i] * p.n[3]
                 + a.c[4][i] * p.d),
               a.d * p.d, p.r)

\* Transform::compute_matrix = Mat4::from_scale_rotation_translation, the
\* rotation being the quaternion <<x, y, z, w>>
compute_matrix(t) ==
    LET x  == t.rotation[1]
        y  == t.rotation[2]
        z  == t.rotation[3]
        w  == t.rotation[4]
        xx == x * (x + x)
        xy == x * (y + y)
        xz == x * (z + z)
        yy == y * (y + y)
        yz == y * (z + z)
        zz == z * (z + z)
        wx == w * (x + x)
        wy == w * (y + y)
        wz == w * (z + z)
        sx == t.scale[1]
        sy == t.scale[2]
        sz == t.scale[3]
    IN  Mat4Cols(<<sx * (1 - (yy + zz)), sx * (xy + wz), sx * (xz - wy), 0>>,
                 <<sy * (xy - wz), sy * (1 - (xx + zz)), sy * (yz + wx), 0>>,
                 <<sz * (xz + wy), sz * (yz - wx), sz * (1 - (xx + yy)), 0>>,
                 <<t.translation[1], t.translation[2], t.translation[3], 1>>)

(***************************************************************************)
(* bevy: Mesh                                                              *)
(*   attributes: MeshVertexAttributeId -> [enc, values] (a BTreeMap,       *)
(*               iterated in ascending id order)                           *)
(*   indices:    [kind, v], kind one of "None", "U16", "U32"               *)
(* Every element of a channel is a record [n, d, r, fin]; n has as many    *)
(* components as the encoding (2, 3 or 4).                                 *)
(***************************************************************************)
ATTRIBUTE_POSITION == 0

ATTRIBUTE_NORMAL == 1

ATTRIBUTE_UV_0 == 2

ATTRIBUTE_JOINT_WEIGHT == 6

ATTRIBUTE_JOINT_INDEX == 7

\* the variants of VertexAttributeValues that mesh_append matches on
VertexAttributeValues ==
    {"Float32", "Sint32", "Uint32", "Float32x2", "Sint32x2", "Uint32x2",
     "Float32x3", "Sint32x3", "Uint32x3", "Float32x4", "Sint32x4", "Uint32x4",
     "Sint16x2", "Snorm16x2", "Uint16x2", "Unorm16x2",
     "Sint16x4", "Snorm16x4", "Uint16x4", "Unorm16x4",
     "Sint8x2", "Snorm8x2", "Uint8x2", "Unorm8x2",
     "Sint8x4", "Snorm8x4", "Uint8x4", "Unorm8x4"}

Elem(n, d) == [n |-> n, d |-> d, r |-> 1, fin |-> TRUE]

NoIndices == [kind |-> "None", v |-> <<>>]

Indices(kind, v) == [kind |-> kind, v |-> v]

\* Mesh::attribute(id): the channel, or none
HasAttribute(mesh, id) == id \in DOMAIN mesh.attributes

\* the number of indices taken for the number of vertices
count_indices(mesh) == Len(mesh.indices.v)

\* Mesh::count_vertices: the length of the channels (the smallest one when
\* they differ, 0 without channels)
count_vertices(mesh) ==
    IF DOMAIN mesh.attributes = {} THEN 0
    ELSE SetMin({Len(mesh.attributes[a].values) : a \in DOMAIN mesh.attributes})

\* the view of channel id under whatever variant it is stored
ViewOfAnyVariant(mesh, id, enc) ==
    IF HasAttribute(mesh, id) THEN mesh.attributes[id].values ELSE <<>>

\* the view of channel id when it is stored as enc, the empty slice otherwise
View(mesh, id, enc) ==
    IF HasAttribute(mesh, id) /\ mesh.attributes[id].enc = enc
    THEN mesh.attributes[id].values
    ELSE <<>>

mesh_len(mesh) == Len(View(mesh, ATTRIBUTE_POSITION, "Float32x3"))

mesh_joint_weights(mesh) == View(mesh, ATTRIBUTE_JOINT_WEIGHT, "Float32x4")

mesh_joint_indices(mesh) == View(mesh, ATTRIBUTE_JOINT_INDEX, "Uint16x4")

mesh_positions(mesh) == View(mesh, ATTRIBUTE_POSITION, "Float32x3")

mesh_positions_mut(mesh) == View(mesh, ATTRIBUTE_POSITION, "Float32x3")

mesh_normals(mesh) == View(mesh, ATTRIBUTE_NORMAL, "Float32x3")

mesh_normals_mut(mesh) == View(mesh, ATTRIBUTE_NORMAL, "Float32x3")

mesh_uvs(mesh) == View(mesh, ATTRIBUTE_UV_0, "Float32x2")

mesh_uvs_mut(mesh) == View(mesh, ATTRIBUTE_UV_0, "Float32x2")

\* writing the first Len(vals) elements through an IterMut over channel id:
\* the mesh with those elements replaced (nothing when the view is empty)
StoreThrough(mesh, id, vals) ==
    IF vals = <<>> THEN mesh
    ELSE [mesh EXCEPT !.attributes[id].values =
              Tabulate(Len(@), LAMBDA i : IF i <= Len(vals) THEN vals[i] ELSE @[i])]

mesh_empty_default ==
    [attributes |->
        [a \in {ATTRIBUTE_POSITION, ATTRIBUTE_NORMAL, ATTRIBUTE_UV_0} |->
            [enc |-> IF a = ATTRIBUTE_UV_0 THEN "Float32x2" ELSE "Float32x3",
             values |-> <<>>]],
     indices |-> Indices("U32", <<>>)]

(***************************************************************************)
(* Option<Mesh>; "Panic" stands for a call that aborted instead of         *)
(* returning                                                               *)
(***************************************************************************)
NoMesh == [attributes |-> <<>>, indices |-> NoIndices]

Some(mesh) == [tag |-> "Some", mesh |-> mesh]

None == [tag |-> "None", mesh |-> NoMesh]

Panicked == [tag |-> "Panic", mesh |-> NoMesh]

(***************************************************************************)
(* mesh_with_transform                                                     *)
(***************************************************************************)
\* the Mat3 of the x, y, z axes of mat itself
UpperLeftModel(mat) == Mat3Of(mat)

\* the Mat3 of the x, y, z axes of mat.inverse().transpose()
InverseTransposeModel(mat) == Mat3Of(transpose(inverse(mat)))

\* the clone with its positions and normals transformed
TransformedClone(mesh, transform) ==
    LET cloned  == mesh
        mat     == compute_matrix(transform)
        moved   == StoreThrough(cloned, ATTRIBUTE_POSITION,
                       Tabulate(Len(mesh_positions_mut(cloned)), LAMBDA i :
                           transform_point3(mat, mesh_positions_mut(cloned)[i])))
        itm     == InverseTransposeModel(mat)
    IN  StoreThrough(moved, ATTRIBUTE_NORMAL,
            Tabulate(Len(mesh_normals_mut(moved)), LAMBDA i :
                normalize_or_zero(mul_vec3(itm, mesh_normals_mut(moved)[i]))))

\* the transform applied to the argument itself, not to a clone
mesh_with_transform_in_place(mesh, transform) ==
    [mesh |-> TransformedClone(mesh, transform),
     ret |-> Some(TransformedClone(mesh, transform))]

\* the result: [mesh |-> the argument after the call, ret |-> the Option]
mesh_with_transform(mesh, transform) ==
    [mesh |-> mesh, ret |-> Some(TransformedClone(mesh, transform))]

(***************************************************************************)
(* skinning                                                                *)
(*   skin:              [inverse_bindposes: handle, joints: Seq(Entity)]   *)
(*   inverse_bindposes: the assets, handle -> Seq(Mat4)                    *)
(*   joints:            the query, Entity -> world matrix of the entity's  *)
(*                      GlobalTransform, for the entities that have one    *)
(***************************************************************************)
\* indexing joint_matrices out of bounds aborts
SkinModelPanics(joint_matrices, indexes) ==
    \E k \in 1..4 : indexes.n[k] >= Len(joint_matrices)

skin_model(joint_matrices, indexes, weights) ==
    MatAdd(MatAdd(MatAdd(
        MatScale(weights.n[1], weights.d, joint_matrices[indexes.n[1] + 1]),
        MatScale(weights.n[2], weights.d, joint_matrices[indexes.n[2] + 1])),
        MatScale(weights.n[3], weights.d, joint_matrices[indexes.n[3] + 1])),
        MatScale(weights.n[4], weights.d, joint_matrices[indexes.n[4] + 1]))

\* the joints found before the first one the query does not have
skinned_mesh_joints_found_so_far(skin, inverse_bindposes, joints) ==
    IF skin.inverse_bindposes \notin DOMAIN inverse_bindposes
    THEN [tag |-> "None", buffer |-> <<>>]
    ELSE LET poses == inverse_bindposes[skin.inverse_bindposes]
             k     == Min(Len(poses), Len(skin.joints))
             lost  == {i \in 1..k : skin.joints[i] \notin DOMAIN joints}
             found == IF lost = {} THEN k ELSE SetMin(lost) - 1
         IN  [tag |-> "Some",
              buffer |-> Tabulate(found, LAMBDA i : MatMul(joints[skin.joints[i]], poses[i]))]

\* the inverse bindpose multiplied on the left of the joint's world matrix
skinned_mesh_joints_swapped(skin, inverse_bindposes, joints) ==
    IF skin.inverse_bindposes \notin DOMAIN inverse_bindposes
    THEN [tag |-> "None", buffer |-> <<>>]
    ELSE LET poses == inverse_bindposes[skin.inverse_bindposes]
             k     == Min(Len(poses), Len(skin.joints))
         IN  IF \E i \in 1..k : skin.joints[i] \notin DOMAIN joints
             THEN [tag |-> "None", buffer |-> <<>>]
             ELSE [tag |-> "Some",
                   buffer |-> Tabulate(k, LAMBDA i : MatMul(poses[i], joints[skin.joints[i]]))]

\* [tag |-> "Some" or "None", buffer |-> the joint matrices]
skinned_mesh_joints(skin, inverse_bindposes, joints) ==
    IF skin.inverse_bindposes \notin DOMAIN inverse_bindposes
    THEN [tag |-> "None", buffer |-> <<>>]
    ELSE LET poses == inverse_bindposes[skin.inverse_bindposes]
             k     == Min(Len(poses), Len(skin.joints))
         IN  IF \E i \in 1..k : skin.joints[i] \notin DOMAIN joints
             THEN [tag |-> "None", buffer |-> <<>>]
             ELSE [tag |-> "Some",
                   buffer |-> Tabulate(k, LAMBDA i : MatMul(joints[skin.joints[i]], poses[i]))]

\* every normal transformed, those without a skinned position by the first
\* joint matrix
mesh_with_skinned_transform_every_normal(mesh, skinned_mesh, joint_query, inverse_bindposes) ==
    LET new_mesh == mesh
        joints   == skinned_mesh_joints(skinned_mesh, inverse_bindposes, joint_query)
        k        == Min(Len(mesh_positions_mut(new_mesh)),
                        Min(Len(mesh_joint_indices(mesh)), Len(mesh_joint_weights(mesh))))
        models   == Tabulate(k, LAMBDA i :
                        skin_model(joints.buffer, mesh_joint_indices(mesh)[i],
                                   mesh_joint_weights(mesh)[i]))
        moved    == StoreThrough(new_mesh, ATTRIBUTE_POSITION,
                        Tabulate(k, LAMBDA i :
                            transform_point3(models[i], mesh_positions_mut(new_mesh)[i])))
        turned   == StoreThrough(moved, ATTRIBUTE_NORMAL,
                        Tabulate(Len(mesh_normals_mut(moved)), LAMBDA i :
                            normalize_or_zero(mul_vec3(
                                InverseTransposeModel(IF i <= k THEN models[i]
                                                      ELSE joints.buffer[1]),
                                mesh_normals_mut(moved)[i]))))
    IN  IF joints.tag = "Some"
        THEN IF \/ \E i \in 1..k : SkinModelPanics(joints.buffer, mesh_joint_indices(mesh)[i])
                \/ joints.buffer = <<>>
             THEN [mesh |-> mesh, ret |-> Panicked]
             ELSE [mesh |-> mesh, ret |-> Some(turned)]
        ELSE [mesh |-> mesh, ret |-> Some(new_mesh)]

\* the result: [mesh |-> the argument after the call, ret |-> the Option]
mesh_with_skinned_transform(mesh, skinned_mesh, joint_query, inverse_bindposes) ==
    LET new_mesh == mesh
        joints   == skinned_mesh_joints(skinned_mesh, inverse_bindposes, joint_query)
        \* the zip of positions, joint indices and joint weights
        k        == Min(Len(mesh_positions_mut(new_mesh)),
                        Min(Len(mesh_joint_indices(mesh)), Len(mesh_joint_weights(mesh))))
        models   == Tabulate(k, LAMBDA i :
                        skin_model(joints.buffer, mesh_joint_indices(mesh)[i],
                                   mesh_joint_weights(mesh)[i]))
        moved    == StoreThrough(new_mesh, ATTRIBUTE_POSITION,
                        Tabulate(k, LAMBDA i :
                            transform_point3(models[i], mesh_positions_mut(new_mesh)[i])))
        \* the zip of normals and models
        kn       == Min(Len(mesh_normals_mut(moved)), k)
        turned   == StoreThrough(moved, ATTRIBUTE_NORMAL,
                        Tabulate(kn, LAMBDA i :
                            normalize_or_zero(mul_vec3(InverseTransposeModel(models[i]),
                                                       mesh_normals_mut(moved)[i]))))
    IN  IF joints.tag = "Some"
        THEN IF \E i \in 1..k : SkinModelPanics(joints.buffer, mesh_joint_indices(mesh)[i])
             THEN [mesh |-> mesh, ret |-> Panicked]
             ELSE [mesh |-> mesh, ret |-> Some(turned)]
        ELSE [mesh |-> mesh, ret |-> Some(new_mesh)]

(***************************************************************************)
(* mesh_append                                                             *)
(* An index value is [hi, lo], two 16-bit limbs: hi * 2^16 + lo.  A u16    *)
(* holds hi = 0, a u32 holds hi < 2^16.                                    *)
(***************************************************************************)
U16_RANGE == 65536

Ix(hi, lo) == [hi |-> hi, lo |-> lo]

\* the sum kept at full width, neither operand cut to 16 bits
RebaseU16Untruncated(sv, dest_mesh_count) ==
    LET lo == sv.lo + (dest_mesh_count % U16_RANGE)
    IN  [stored |-> Ix(sv.hi + (dest_mesh_count \div U16_RANGE) + (lo \div U16_RANGE),
                       lo % U16_RANGE),
         overflow |-> FALSE]

\* sv as u16 + dest_mesh_count as u16: the stored value (wrapping) and
\* whether the addition overflowed
RebaseU16(sv, dest_mesh_count) ==
    LET sum == sv.lo + (dest_mesh_count % U16_RANGE)
    IN  [stored |-> Ix(0, sum % U16_RANGE), overflow |-> sum >= U16_RANGE]

\* sv as u32 + dest_mesh_count as u32
RebaseU32(sv, dest_mesh_count) ==
    LET lo == sv.lo + (dest_mesh_count % U16_RANGE)
        hi == (sv.hi % U16_RANGE) + ((dest_mesh_count \div U16_RANGE) % U16_RANGE)
              + (lo \div U16_RANGE)
    IN  [stored |-> Ix(hi % U16_RANGE, lo % U16_RANGE), overflow |-> hi >= U16_RANGE]

\* the src index stored as it is, without the offset
RebaseNoOffset(kind, sv, dest_mesh_count) ==
    IF kind = "U16" THEN RebaseU16(sv, 0) ELSE RebaseU32(sv, 0)

Rebase(kind, sv, dest_mesh_count) ==
    IF kind = "U16" THEN RebaseU16(sv, dest_mesh_count)
    ELSE RebaseU32(sv, dest_mesh_count)

Ok == [tag |-> "Ok", attr |-> -1]

AttributeNotFound(attr) == [tag |-> "Err", attr |-> attr]

Abort == [tag |-> "Panic", attr |-> -1]

NoCall == [tag |-> "NoCall", attr |-> -1]

\* each dest channel is extended by src's channel of the same id, whatever
\* the variant src stores it under
ExtendAttributesAnyVariant(dest_mesh, src_mesh) ==
    [dest_mesh EXCEPT !.attributes =
        [a \in DOMAIN dest_mesh.attributes |->
            [dest_mesh.attributes[a] EXCEPT
                !.values = @ \o src_mesh.attributes[a].values]]]

\* src's values are put in front of dest's
ExtendAttributesInFront(dest_mesh, src_mesh) ==
    [dest_mesh EXCEPT !.attributes =
        [a \in DOMAIN dest_mesh.attributes |->
            IF src_mesh.attributes[a].enc = dest_mesh.attributes[a].enc
            THEN [dest_mesh.attributes[a] EXCEPT
                     !.values = src_mesh.attributes[a].values \o @]
            ELSE dest_mesh.attributes[a]]]

\* the match has no arm for Float32x2
ExtendAttributesNoFloat32x2(dest_mesh, src_mesh) ==
    [dest_mesh EXCEPT !.attributes =
        [a \in DOMAIN dest_mesh.attributes |->
            IF /\ src_mesh.attributes[a].enc = dest_mesh.attributes[a].enc
               /\ dest_mesh.attributes[a].enc # "Float32x2"
            THEN [dest_mesh.attributes[a] EXCEPT
                     !.values = @ \o src_mesh.attributes[a].values]
            ELSE dest_mesh.attributes[a]]]

\* for (attr, vals) in dest_mesh.attributes_mut(): each dest channel is
\* extended by src's channel of the same id when that is stored under the
\* same variant, and left alone otherwise
ExtendAttributes(dest_mesh, src_mesh) ==
    [dest_mesh EXCEPT !.attributes =
        [a \in DOMAIN dest_mesh.attributes |->
            IF src_mesh.attributes[a].enc = dest_mesh.attributes[a].enc
            THEN [dest_mesh.attributes[a] EXCEPT
                     !.values = @ \o src_mesh.attributes[a].values]
            ELSE dest_mesh.attributes[a]]]

\* the first k rebased src indices pushed onto dest's buffer
PushIndices(dest_mesh, rebased, k) ==
    [dest_mesh EXCEPT !.indices.v = @ \o Tabulate(k, LAMBDA i : rebased[i].stored)]

\* for (attr, _) in dest_mesh.attributes(): the first dest channel src lacks
CheckAttributes(dest_mesh, src_mesh) ==
    LET missing == {a \in DOMAIN dest_mesh.attributes : ~HasAttribute(src_mesh, a)}
    IN  IF missing # {} THEN AttributeNotFound(SetMin(missing)) ELSE Ok

\* the two unwraps and the push loop: the outcomes [dest, ret].  An
\* overflowing addition wraps in a build without overflow checks and aborts
\* in a build with them, after the indices before it were pushed.
AppendIndices(dest_mesh, src_mesh, dest_mesh_count) ==
    LET sv      == src_mesh.indices.v
        rebased == Tabulate(Len(sv), LAMBDA i :
                       Rebase(dest_mesh.indices.kind, sv[i], dest_mesh_count))
        over    == {i \in 1..Len(sv) : rebased[i].overflow}
        wrapped == [dest |-> PushIndices(dest_mesh, rebased, Len(sv)), ret |-> Ok]
    IN  IF src_mesh.indices.kind = "None" \/ dest_mesh.indices.kind = "None"
        THEN {[dest |-> dest_mesh, ret |-> Abort]}
        ELSE IF over = {} THEN {wrapped}
        ELSE {wrapped,
              [dest |-> PushIndices(dest_mesh, rebased, SetMin(over) - 1), ret |-> Abort]}

\* the presence check made after the indices were pushed
mesh_append_check_late(dest_mesh, src_mesh) ==
    LET dest_mesh_count == count_vertices(dest_mesh)
        found == CheckAttributes(dest_mesh, src_mesh)
    IN  {IF o.ret # Ok THEN o
         ELSE IF found # Ok THEN [dest |-> o.dest, ret |-> found]
         ELSE [dest |-> ExtendAttributes(o.dest, src_mesh), ret |-> Ok] :
            o \in AppendIndices(dest_mesh, src_mesh, dest_mesh_count)}

\* the outcomes [dest, ret] of mesh_append(&mut dest_mesh, &src_mesh)
mesh_append(dest_mesh, src_mesh) ==
    LET dest_mesh_count == count_vertices(dest_mesh)
        found == CheckAttributes(dest_mesh, src_mesh)
    IN  IF found # Ok THEN {[dest |-> dest_mesh, ret |-> found]}
        ELSE {IF o.ret # Ok THEN o
              ELSE [dest |-> ExtendAttributes(o.dest, src_mesh), ret |-> Ok] :
                 o \in AppendIndices(dest_mesh, src_mesh, dest_mesh_count)}

(***************************************************************************)
(* The meshes the callers supply                                           *)
(***************************************************************************)
MaxVerts == 2

MaxDestLen == 3

DefaultLayout ==
    (ATTRIBUTE_POSITION :> "Float32x3") @@ (ATTRIBUTE_NORMAL :> "Float32x3")
    @@ (ATTRIBUTE_UV_0 :> "Float32x2")

SkinnedLayout ==
    DefaultLayout @@ (ATTRIBUTE_JOINT_WEIGHT :> "Float32x4")
    @@ (ATTRIBUTE_JOINT_INDEX :> "Uint16x4")

NoUvLayout == (ATTRIBUTE_POSITION :> "Float32x3") @@ (ATTRIBUTE_NORMAL :> "Float32x3")

UvAsFloat32x3Layout == (ATTRIBUTE_UV_0 :> "Float32x3") @@ DefaultLayout

NoPositionLayout ==
    (ATTRIBUTE_NORMAL :> "Float32x3") @@ (ATTRIBUTE_JOINT_WEIGHT :> "Float32x4")
    @@ (ATTRIBUTE_JOINT_INDEX :> "Uint16x4")

PositionAsFloat32x4Layout == (ATTRIBUTE_POSITION :> "Float32x4") @@ SkinnedLayout

NormalPalette == <<Vec3(0, 0, 1), Vec3(1, 1, 0), Vec3(0, 0, 0)>>

\* variant 0: every vertex bound to joint 0 with weight 1; variant 1: blends
\* of joints 0 and 1, with weights summing to 1 (odd vertices) or 2 (even);
\* variant 2: all weights 0
JointIndexOf(i, v) ==
    IF v = 1 THEN (IF i % 2 = 1 THEN Elem(<<0, 1, 0, 0>>, 1) ELSE Elem(<<1, 0, 0, 0>>, 1))
    ELSE Elem(<<0, 0, 0, 0>>, 1)

JointWeightOf(i, v) ==
    CASE v = 0 -> Elem(<<1, 0, 0, 0>>, 1)
      [] v = 1 -> (IF i % 2 = 1 THEN Elem(<<1, 1, 0, 0>>, 2) ELSE Elem(<<1, 1, 0, 0>>, 1))
      [] OTHER -> Elem(<<0, 0, 0, 0>>, 1)

\* the value of vertex i of channel a in a mesh of n vertices, variant v
ValueOf(a, enc, i, n, v) ==
    CASE enc = "Float32x3" /\ a = ATTRIBUTE_NORMAL -> NormalPalette[((i + v) % 3) + 1]
      [] enc = "Float32x3" /\ a # ATTRIBUTE_NORMAL -> Vec3(i, n, v - 1)
      [] enc = "Float32x2" -> Elem(<<i, n>>, 1)
      [] enc = "Float32x4" /\ a = ATTRIBUTE_JOINT_WEIGHT -> JointWeightOf(i, v)
      [] enc = "Uint16x4" -> JointIndexOf(i, v)
      [] OTHER -> Elem(<<i, n, v, 1>>, 1)

Build(layout, n, v, indices) ==
    [attributes |->
        [a \in DOMAIN layout |->
            [enc |-> layout[a],
             values |-> Tabulate(n, LAMBDA i : ValueOf(a, layout[a], i, n, v))]],
     indices |-> indices]

\* the indices 0 .. n-1
NaturalIndices(kind, n) == Indices(kind, Tabulate(n, LAMBDA i : Ix(0, i - 1)))

\* index buffers whose values are near the limits of the two widths
EdgeIndices ==
    {NoIndices,
     Indices("U16", <<Ix(0, U16_RANGE - 1)>>),
     Indices("U32", <<Ix(0, 0), Ix(1, 0)>>),
     Indices("U32", <<Ix(U16_RANGE - 1, U16_RANGE - 1)>>)}

MergeLayouts ==
    {SkinnedLayout, NoUvLayout, UvAsFloat32x3Layout, NoPositionLayout}

MergeInputs ==
    {Build(l, n, 0, NaturalIndices("U32", n)) : l \in MergeLayouts, n \in 0..MaxVerts}
    \cup {Build(DefaultLayout, n, 0, NaturalIndices(k, n)) :
              k \in {"U16", "U32"}, n \in 0..MaxVerts}
    \cup {Build(DefaultLayout, n, 0, ix) : n \in 0..MaxVerts, ix \in EdgeIndices}

(***************************************************************************)
(* State                                                                   *)
(*   dest  the mesh mesh_append extends in place                           *)
(*   src   the mesh passed by shared reference to the last call            *)
(*   ret   what the last mesh_append returned                              *)
(*   pre   dest as it was when the last mesh_append was called             *)
(*   out   what the last mesh_with_transform / mesh_with_skinned_transform *)
(*         returned                                                        *)
(*   op    the last transform or accessor call and its arguments           *)
(*   view  what the last attribute accessor returned                       *)
(*   log   the meshes appended to an accumulated mesh, in order            *)
(***************************************************************************)
\* an accessor's result: the elements of the view, or the number mesh_len
\* returned
NoView == [len |-> 0, items |-> <<>>]

NoOp ==
    [name |-> "none", transform |-> <<>>, skinned_mesh |-> <<>>,
     joint_query |-> <<>>, inverse_bindposes |-> <<>>, arg |-> NoMesh, done |-> FALSE]

Init ==
    /\ dest = mesh_empty_default
    /\ src = mesh_empty_default
    /\ ret = NoCall
    /\ pre = mesh_empty_default
    /\ out = None
    /\ view = NoView
    /\ log = <<>>
    /\ op = NoOp

Longest(mesh) ==
    LET lens == {Len(mesh.attributes[a].values) : a \in DOMAIN mesh.attributes}
                \cup {Len(mesh.indices.v)}
    IN  CHOOSE m \in lens : \A k \in lens : k <= m

\* let mut combined_mesh = mesh_empty_default();
MeshEmptyDefault ==
    /\ dest' = mesh_empty_default
    /\ src' = mesh_empty_default
    /\ ret' = NoCall
    /\ pre' = mesh_empty_default
    /\ UNCHANGED <<out, op, view, log>>

\* the caller starts from a mesh of its own, before it appends to it
TakeDest(m) ==
    /\ ret = NoCall
    /\ dest' = m
    /\ src' = mesh_empty_default
    /\ ret' = NoCall
    /\ pre' = m
    /\ UNCHANGED <<out, op, view, log>>

\* mesh_append(&mut dest, &s); nothing is appended after an abort
MeshAppend(s) ==
    /\ ret.tag # "Panic"
    /\ Longest(dest) + Longest(s) <= MaxDestLen
    /\ \E o \in mesh_append(dest, s) :
          /\ dest' = o.dest
          /\ ret' = o.ret
    /\ src' = s
    /\ pre' = dest
    /\ UNCHANGED <<out, op, view, log>>

Next ==
    \/ MeshEmptyDefault
    \/ \E m \in MergeInputs : TakeDest(m)
    \/ \E s \in MergeInputs : MeshAppend(s)

Spec == Init /\ [][Next]_vars

(***************************************************************************)
(* Properties of mesh_append, over the states a call has just produced:    *)
(* pre is dest as passed, src the mesh appended, dest and ret the outcome. *)
(***************************************************************************)
\* the exact sum of a src index and a vertex count, limbs not reduced on top
ExactSum(sv, n) ==
    [hi |-> sv.hi + ((sv.lo + n) \div U16_RANGE), lo |-> (sv.lo + n) % U16_RANGE]

\* a value reduced to the width of an index buffer of the given kind
Reduced(kind, x) ==
    IF kind = "U16" THEN [hi |-> 0, lo |-> x.lo]
    ELSE [hi |-> x.hi % U16_RANGE, lo |-> x.lo]

Channels(mesh) == DOMAIN mesh.attributes

Lengths(mesh) == {Len(mesh.attributes[a].values) : a \in Channels(mesh)}

\* every channel of the mesh has the same number of entries
EqualLengths(mesh) == Cardinality(Lengths(mesh)) <= 1

MissingInSrc == {a \in Channels(pre) : a \notin Channels(src)}

Mismatched ==
    {a \in Channels(pre) \ MissingInSrc : src.attributes[a].enc # pre.attributes[a].enc}

\* C1: when dest has a channel that src lacks, the call returns
\* AttributeNotFound naming such a channel, and dest is exactly as it was.
C1_MissingChannelRejected ==
    (ret # NoCall /\ MissingInSrc # {}) =>
        /\ ret.tag = "Err"
        /\ ret.attr \in MissingInSrc
        /\ dest = pre

C1_Witness ==
    /\ ret.tag = "Err"
    /\ MissingInSrc # {}
    /\ Len(src.indices.v) > 0
    /\ count_vertices(pre) > 0

\* C2 as stated: after a successful call dest's indices are the old ones
\* followed by each src index plus the vertex count dest had before.
C2_IndicesExactSum ==
    ret.tag = "Ok" =>
        /\ Len(dest.indices.v) = Len(pre.indices.v) + Len(src.indices.v)
        /\ \A i \in 1..Len(pre.indices.v) : dest.indices.v[i] = pre.indices.v[i]
        /\ \A i \in 1..Len(src.indices.v) :
              dest.indices.v[Len(pre.indices.v) + i]
                  = ExactSum(src.indices.v[i], count_vertices(pre))

\* C2: after a successful call dest's indices are the old ones followed by
\* each src index plus the vertex count dest had before, reduced modulo
\* 2^16 or 2^32 as dest's buffer is 16 or 32 bits wide; that is the exact
\* sum whenever the exact sum fits the width.
C2_IndicesSumInWidth ==
    ret.tag = "Ok" =>
        /\ dest.indices.kind = pre.indices.kind
        /\ Len(dest.indices.v) = Len(pre.indices.v) + Len(src.indices.v)
        /\ \A i \in 1..Len(pre.indices.v) : dest.indices.v[i] = pre.indices.v[i]
        /\ \A i \in 1..Len(src.indices.v) :
              LET exact == ExactSum(src.indices.v[i], count_vertices(pre))
                  got   == dest.indices.v[Len(pre.indices.v) + i]
              IN  /\ got = Reduced(pre.indices.kind, exact)
                  /\ (exact.hi = 0 \/ (pre.indices.kind = "U32" /\ exact.hi < U16_RANGE))
                        => got = exact

C2_Witness ==
    /\ ret.tag = "Ok"
    /\ count_vertices(pre) = 1
    /\ Len(pre.indices.v) = 1
    /\ src.indices.v = <<Ix(0, 0), Ix(0, 1)>>
    /\ dest.indices.v = pre.indices.v \o <<Ix(0, 1), Ix(0, 2)>>

\* C3: when every dest channel is stored by src under the same encoding and
\* both meshes have channels of equal length, a successful call leaves each
\* dest channel holding its old values followed by src's, and all dest
\* channels have the same length, the old vertex count plus src's.
C3_ChannelsConcatenated ==
    (/\ ret.tag = "Ok"
     /\ Mismatched = {}
     /\ EqualLengths(pre) /\ EqualLengths(src)) =>
        /\ Channels(dest) = Channels(pre)
        /\ \A a \in Channels(pre) :
              /\ dest.attributes[a].enc = pre.attributes[a].enc
              /\ dest.attributes[a].values
                    = pre.attributes[a].values \o src.attributes[a].values
              /\ Len(dest.attributes[a].values)
                    = count_vertices(pre) + count_vertices(src)

C3_Witness ==
    /\ ret.tag = "Ok"
    /\ Mismatched = {}
    /\ EqualLengths(pre) /\ EqualLengths(src)
    /\ count_vertices(pre) > 0
    /\ count_vertices(src) > 0
    /\ Cardinality(Channels(pre)) >= 3
    /\ pre.attributes[ATTRIBUTE_POSITION].values # src.attributes[ATTRIBUTE_POSITION].values

\* C6 as stated: appending an indexed mesh that stores position, normal and
\* UV in the encodings of the empty default mesh to the empty default mesh
\* yields a dest with the same channels and the same index values as src.
C6_EmptyDefaultYieldsSrc ==
    (/\ ret # NoCall
     /\ pre = mesh_empty_default
     /\ MissingInSrc = {} /\ Mismatched = {}
     /\ src.indices.kind # "None") =>
        /\ ret.tag = "Ok"
        /\ dest.attributes = src.attributes
        /\ dest.indices.v = src.indices.v

\* C6: appending to the empty default mesh a mesh that has an index buffer
\* and whose channels are exactly position, normal and UV in the default
\* encodings returns Ok and yields a dest with the same channels and the
\* same index values as src, held in a 32-bit buffer.
C6_EmptyDefaultYieldsPlainSrc ==
    (/\ ret # NoCall
     /\ pre = mesh_empty_default
     /\ Channels(src) = Channels(pre) /\ Mismatched = {}
     /\ src.indices.kind # "None") =>
        /\ ret.tag = "Ok"
        /\ dest.attributes = src.attributes
        /\ dest.indices.v = src.indices.v
        /\ dest.indices.kind = "U32"

C6_Witness ==
    /\ ret.tag = "Ok"
    /\ pre = mesh_empty_default
    /\ Channels(src) = Channels(pre) /\ Mismatched = {}
    /\ src.indices.kind = "U16"
    /\ count_vertices(src) = MaxVerts
    /\ Len(src.indices.v) > 0
    /\ dest.attributes = src.attributes

\* C7: when src stores a dest channel under another encoding the call
\* raises no error, and returns Ok when both meshes have index buffers and
\* the rebased indices fit dest's width; after Ok that channel is as it
\* was, while the indices and the channels of matching encoding are
\* appended.
C7_MismatchSkippedSilently ==
    (ret # NoCall /\ MissingInSrc = {} /\ Mismatched # {}) =>
        /\ ret.tag # "Err"
        /\ (/\ pre.indices.kind # "None" /\ src.indices.kind # "None"
            /\ \A i \in 1..Len(src.indices.v) :
                  LET exact == ExactSum(src.indices.v[i], count_vertices(pre))
                  IN  exact = Reduced(pre.indices.kind, exact))
              => ret.tag = "Ok"
        /\ ret.tag = "Ok" =>
              /\ \A a \in Mismatched : dest.attributes[a] = pre.attributes[a]
              /\ \A a \in Channels(pre) \ Mismatched :
                    dest.attributes[a].values
                        = pre.attributes[a].values \o src.attributes[a].values
              /\ Len(dest.indices.v) = Len(pre.indices.v) + Len(src.indices.v)
              /\ \A i \in 1..Len(src.indices.v) :
                    dest.indices.v[Len(pre.indices.v) + i]
                        = Reduced(pre.indices.kind,
                                  ExactSum(src.indices.v[i], count_vertices(pre)))

\* dest ends with channels of unequal length
C7_Witness ==
    /\ ret.tag = "Ok"
    /\ Mismatched = {ATTRIBUTE_UV_0}
    /\ EqualLengths(pre) /\ EqualLengths(src)
    /\ count_vertices(src) > 0
    /\ Len(src.indices.v) > 0
    /\ ~EqualLengths(dest)
    /\ Len(dest.attributes[ATTRIBUTE_UV_0].values)
          < Len(dest.attributes[ATTRIBUTE_POSITION].values)

\* the sum of two index values, limbs not reduced on top
AddIx(a, b) ==
    [hi |-> a.hi + b.hi + ((a.lo + b.lo) \div U16_RANGE), lo |-> (a.lo + b.lo) % U16_RANGE]

\* C12: dest's index buffer keeps its width whatever src's width is; every
\* appended entry is the sum, at that width, of the src index cut to that
\* width and of the vertex count cut to that width, so a 16-bit dest never
\* holds an exact sum that needs more than 16 bits.
C12_IndexWidthKept ==
    ret # NoCall =>
        /\ dest.indices.kind = pre.indices.kind
        /\ ret.tag = "Ok" =>
              \A i \in 1..Len(src.indices.v) :
                  LET kind  == pre.indices.kind
                      sv    == src.indices.v[i]
                      count == ExactSum(Ix(0, 0), count_vertices(pre))
                      got   == dest.indices.v[Len(pre.indices.v) + i]
                  IN  /\ got = Reduced(kind, AddIx(Reduced(kind, sv), Reduced(kind, count)))
                      /\ kind = "U16" => got.hi = 0
                      /\ (kind = "U16" /\ AddIx(sv, count).hi > 0) => got # AddIx(sv, count)

\* a 32-bit src index of 65536 appended to a 16-bit dest of one vertex
C12_Witness ==
    /\ ret.tag = "Ok"
    /\ pre.indices.kind = "U16" /\ dest.indices.kind = "U16"
    /\ src.indices.kind = "U32"
    /\ count_vertices(pre) = 1
    /\ \E i \in 1..Len(src.indices.v) :
          /\ src.indices.v[i] = Ix(1, 0)
          /\ dest.indices.v[Len(pre.indices.v) + i] = Ix(0, 1)

\* C14 as stated: every call of mesh_append returns Ok or AttributeNotFound,
\* whatever the meshes, with or without index buffers; it never aborts.
C14_AppendNeverAborts ==
    ret # NoCall => ret.tag \in {"Ok", "Err"}

(***************************************************************************)
(* Accumulation: meshes appended one after the other to a mesh that starts *)
(* as mesh_empty_default                                                   *)
(***************************************************************************)
MaxAppends == 3

\* two vertices drawn as three indices
StripIndices(kind) == Indices(kind, <<Ix(0, 1), Ix(0, 0), Ix(0, 1)>>)

\* an index that refers to no vertex of its own mesh
DanglingIndices == Indices("U32", <<Ix(0, 0), Ix(0, MaxVerts)>>)

AccumulateInputs ==
    {Build(DefaultLayout, n, 0, NaturalIndices(k, n)) : k \in {"U16", "U32"}, n \in 0..MaxVerts}
    \cup {Build(SkinnedLayout, n, 0, NaturalIndices("U16", n)) : n \in 1..MaxVerts}
    \cup {Build(DefaultLayout, 2, 1, StripIndices("U32")),
          Build(DefaultLayout, MaxVerts, 1, DanglingIndices)}

InitAccumulate ==
    /\ dest = mesh_empty_default
    /\ src = mesh_empty_default
    /\ ret = NoCall
    /\ pre = mesh_empty_default
    /\ out = None
    /\ op = NoOp
    /\ view = NoView
    /\ log = <<>>

\* mesh_append(&mut combined_mesh, &mesh).unwrap()
Accumulate(mesh) ==
    /\ ret.tag \in {"NoCall", "Ok"}
    /\ Len(log) < MaxAppends
    /\ \E o \in mesh_append(dest, mesh) :
          /\ dest' = o.dest
          /\ ret' = o.ret
    /\ src' = mesh
    /\ pre' = dest
    /\ log' = Append(log, mesh)
    /\ UNCHANGED <<out, op, view>>

NextAccumulate == \E mesh \in AccumulateInputs : Accumulate(mesh)

SpecAccumulate == InitAccumulate /\ [][NextAccumulate]_vars

\* the number of position entries
Positions(mesh) == Len(mesh.attributes[ATTRIBUTE_POSITION].values)

\* position, normal and UV in the default encodings, channels of equal
\* length, and an index buffer whose entries are below the vertex count
Accumulable(mesh) ==
    /\ {ATTRIBUTE_POSITION, ATTRIBUTE_NORMAL, ATTRIBUTE_UV_0} \subseteq Channels(mesh)
    /\ \A a \in {ATTRIBUTE_POSITION, ATTRIBUTE_NORMAL, ATTRIBUTE_UV_0} :
          mesh.attributes[a].enc = mesh_empty_default.attributes[a].enc
    /\ EqualLengths(mesh)
    /\ mesh.indices.kind # "None"
    /\ \A i \in 1..Len(mesh.indices.v) :
          mesh.indices.v[i].hi = 0 /\ mesh.indices.v[i].lo < Positions(mesh)

RECURSIVE VerticesBefore(_)
\* the vertices of the meshes appended before the j-th
VerticesBefore(j) == IF j <= 1 THEN 0 ELSE VerticesBefore(j - 1) + Positions(log[j - 1])

RECURSIVE IndicesBefore(_)
\* the indices of the meshes appended before the j-th
IndicesBefore(j) == IF j <= 1 THEN 0 ELSE IndicesBefore(j - 1) + Len(log[j - 1].indices.v)

\* C15: when every mesh appended so far to a mesh that started as
\* mesh_empty_default has position, normal and UV in the default encodings
\* and indices below its own vertex count, every append returned Ok, the
\* vertex count of the accumulated mesh is the sum of theirs, the indices
\* the j-th mesh contributed are its own plus the vertex counts of the
\* meshes before it, and every index is below the vertex count.
C15_AccumulationKeepsIndicesValid ==
    (\A j \in 1..Len(log) : Accumulable(log[j])) =>
        /\ ret.tag \in {"NoCall", "Ok"}
        /\ EqualLengths(dest)
        /\ Positions(dest) = VerticesBefore(Len(log) + 1)
        /\ Len(dest.indices.v) = IndicesBefore(Len(log) + 1)
        /\ \A j \in 1..Len(log) : \A i \in 1..Len(log[j].indices.v) :
              dest.indices.v[IndicesBefore(j) + i]
                  = Ix(0, log[j].indices.v[i].lo + VerticesBefore(j))
        /\ \A i \in 1..Len(dest.indices.v) :
              dest.indices.v[i].hi = 0 /\ dest.indices.v[i].lo < Positions(dest)

\* three meshes with vertices, of both index widths, one with more indices
\* than vertices
C15_Witness ==
    /\ Len(log) = MaxAppends
    /\ \A j \in 1..Len(log) : Accumulable(log[j]) /\ Positions(log[j]) > 0
    /\ \E j \in 1..Len(log) : log[j].indices.kind = "U16"
    /\ Len(log[1].indices.v) > Positions(log[1])
    /\ ret = Ok
    /\ Positions(dest) >= MaxAppends

(***************************************************************************)
(* The transform and skinning calls                                        *)
(***************************************************************************)
Translation(x, y, z) ==
    [translation |-> <<x, y, z>>, rotation |-> <<0, 0, 0, 1>>, scale |-> <<1, 1, 1>>]

Scale(x, y, z) ==
    [translation |-> <<0, 0, 0>>, rotation |-> <<0, 0, 0, 1>>, scale |-> <<x, y, z>>]

\* identity, translation, non-uniform scale, half turn about z with a scale and
\* a translation, mirror, uniform scale, and a scale with a zero component
Transforms ==
    {Translation(0, 0, 0), Translation(1, 2, 3), Scale(1, 2, 1),
     [translation |-> <<1, 0, 2>>, rotation |-> <<0, 0, 1, 0>>, scale |-> <<1, 1, 3>>],
     Scale(-1, 1, 1), Scale(2, 2, 2), Scale(1, 0, 1)}

NoNormalLayout == (ATTRIBUTE_POSITION :> "Float32x3") @@ (ATTRIBUTE_UV_0 :> "Float32x2")

XformLayouts ==
    {DefaultLayout, SkinnedLayout, NoPositionLayout, PositionAsFloat32x4Layout,
     NoNormalLayout}

\* channel a one element shorter
Shorten(mesh, a) ==
    [mesh EXCEPT !.attributes[a].values = SubSeq(@, 1, Len(@) - 1)]

XformInputs ==
    {Build(l, n, v, NaturalIndices("U16", n)) :
         l \in XformLayouts, n \in 0..MaxVerts, v \in 0..2}
    \cup {Shorten(Build(SkinnedLayout, MaxVerts, v, NaturalIndices("U16", MaxVerts)), a) :
              v \in 0..1, a \in DOMAIN SkinnedLayout \ {ATTRIBUTE_UV_0}}

\* the inverse bindposes assets: handle -> matrices
InverseBindposes ==
    LET back == compute_matrix(Translation(-1, -2, 0))
    IN  (1 :> <<IDENTITY, IDENTITY>>) @@ (2 :> <<back, back>>) @@ (3 :> <<IDENTITY>>)

\* the handles a SkinnedMesh may hold; 9 is not among the assets
Handles == {1, 2, 3, 9}

\* the joint queries: entity -> world matrix.  Entity 2 has no
\* GlobalTransform in the second; in the others entity 1 is placed by one of
\* the transforms
JointQueries ==
    {(1 :> IDENTITY) @@ (2 :> compute_matrix(Translation(0, 1, 0))),
     (1 :> compute_matrix(Translation(1, 0, 0)))}
    \cup {(1 :> compute_matrix(t)) @@ (2 :> IDENTITY) : t \in Transforms}

JointLists == {<<1>>, <<1, 2>>, <<2, 1>>}

\* the calls a caller may make: the function and its arguments other than
\* the mesh
TransformCalls ==
    {[name |-> "mesh_with_transform", transform |-> t, skinned_mesh |-> <<>>,
      joint_query |-> <<>>, inverse_bindposes |-> <<>>, arg |-> NoMesh, done |-> FALSE] :
         t \in Transforms}

SkinnedCalls ==
    {[name |-> "mesh_with_skinned_transform", transform |-> <<>>,
      skinned_mesh |-> [inverse_bindposes |-> h, joints |-> js],
      joint_query |-> q, inverse_bindposes |-> InverseBindposes,
      arg |-> NoMesh, done |-> FALSE] :
         h \in Handles, js \in JointLists, q \in JointQueries}

\* a caller holding a mesh, about to make one call
InitXform ==
    /\ dest = mesh_empty_default
    /\ ret = NoCall
    /\ pre = mesh_empty_default
    /\ out = None
    /\ view = NoView
    /\ log = <<>>
    /\ src \in XformInputs
    /\ op \in TransformCalls \cup SkinnedCalls

\* out = mesh_with_transform(&src, &transform); op.arg keeps the mesh as passed
MeshWithTransform ==
    /\ op.name = "mesh_with_transform" /\ ~op.done
    /\ LET r == mesh_with_transform(src, op.transform)
       IN  /\ src' = r.mesh
           /\ out' = r.ret
    /\ op' = [op EXCEPT !.done = TRUE, !.arg = src]
    /\ UNCHANGED <<dest, ret, pre, view, log>>

\* out = mesh_with_skinned_transform(&src, &skinned_mesh, &joint_query, &inverse_bindposes)
MeshWithSkinnedTransform ==
    /\ op.name = "mesh_with_skinned_transform" /\ ~op.done
    /\ LET r == mesh_with_skinned_transform(src, op.skinned_mesh, op.joint_query,
                                            op.inverse_bindposes)
       IN  /\ src' = r.mesh
           /\ out' = r.ret
    /\ op' = [op EXCEPT !.done = TRUE, !.arg = src]
    /\ UNCHANGED <<dest, ret, pre, view, log>>

NextXform == MeshWithTransform \/ MeshWithSkinnedTransform

SpecXform == InitXform /\ [][NextXform]_vars

(***************************************************************************)
(* The attribute accessors, each called once on a mesh the caller holds    *)
(***************************************************************************)
\* every channel under a variant no accessor expects
MisencodedLayout ==
    (ATTRIBUTE_POSITION :> "Float32x4") @@ (ATTRIBUTE_NORMAL :> "Float32x4")
    @@ (ATTRIBUTE_UV_0 :> "Float32x3") @@ (ATTRIBUTE_JOINT_WEIGHT :> "Float32x3")
    @@ (ATTRIBUTE_JOINT_INDEX :> "Uint32x4")

\* a mesh without channels
NoChannelLayout == [a \in {} |-> "Float32"]

AccessInputs ==
    XformInputs
    \cup {Build(l, n, 0, NaturalIndices("U32", n)) :
              l \in {MisencodedLayout, NoChannelLayout, UvAsFloat32x3Layout},
              n \in 0..MaxVerts}

InitAccess ==
    /\ dest = mesh_empty_default
    /\ ret = NoCall
    /\ pre = mesh_empty_default
    /\ out = None
    /\ view = NoView
    /\ log = <<>>
    /\ src \in AccessInputs
    /\ op = NoOp

\* the caller keeps what accessor name returned for src
Returned(name, len, items) ==
    /\ op.name = "none"
    /\ op' = [op EXCEPT !.name = name, !.done = TRUE, !.arg = src]
    /\ view' = [len |-> len, items |-> items]
    /\ UNCHANGED <<dest, src, ret, pre, out, log>>

MeshLen == Returned("mesh_len", mesh_len(src), <<>>)

MeshJointWeights ==
    Returned("mesh_joint_weights", Len(mesh_joint_weights(src)), mesh_joint_weights(src))

MeshJointIndices ==
    Returned("mesh_joint_indices", Len(mesh_joint_indices(src)), mesh_joint_indices(src))

MeshPositions == Returned("mesh_positions", Len(mesh_positions(src)), mesh_positions(src))

MeshPositionsMut ==
    Returned("mesh_positions_mut", Len(mesh_positions_mut(src)), mesh_positions_mut(src))

MeshNormals == Returned("mesh_normals", Len(mesh_normals(src)), mesh_normals(src))

MeshNormalsMut ==
    Returned("mesh_normals_mut", Len(mesh_normals_mut(src)), mesh_normals_mut(src))

MeshUvs == Returned("mesh_uvs", Len(mesh_uvs(src)), mesh_uvs(src))

MeshUvsMut == Returned("mesh_uvs_mut", Len(mesh_uvs_mut(src)), mesh_uvs_mut(src))

NextAccess ==
    \/ MeshLen
    \/ MeshJointWeights
    \/ MeshJointIndices
    \/ MeshPositions
    \/ MeshPositionsMut
    \/ MeshNormals
    \/ MeshNormalsMut
    \/ MeshUvs
    \/ MeshUvsMut

SpecAccess == InitAccess /\ [][NextAccess]_vars

\* the channel and the variant each accessor is documented to read
ExpectedChannel ==
    [mesh_len |-> <<ATTRIBUTE_POSITION, "Float32x3">>,
     mesh_positions |-> <<ATTRIBUTE_POSITION, "Float32x3">>,
     mesh_positions_mut |-> <<ATTRIBUTE_POSITION, "Float32x3">>,
     mesh_normals |-> <<ATTRIBUTE_NORMAL, "Float32x3">>,
     mesh_normals_mut |-> <<ATTRIBUTE_NORMAL, "Float32x3">>,
     mesh_uvs |-> <<ATTRIBUTE_UV_0, "Float32x2">>,
     mesh_uvs_mut |-> <<ATTRIBUTE_UV_0, "Float32x2">>,
     mesh_joint_indices |-> <<ATTRIBUTE_JOINT_INDEX, "Uint16x4">>,
     mesh_joint_weights |-> <<ATTRIBUTE_JOINT_WEIGHT, "Float32x4">>]

Accessed == op.done /\ op.name \in DOMAIN ExpectedChannel

\* the channel the last accessor reads is present under the expected variant
ChannelAsExpected ==
    LET e == ExpectedChannel[op.name]
    IN  /\ e[1] \in DOMAIN op.arg.attributes
        /\ op.arg.attributes[e[1]].enc = e[2]

\* C11: an accessor whose channel is absent or stored under another variant
\* returns the empty view (mesh_len: 0); otherwise it returns the elements
\* of the channel, one per vertex of the channel (mesh_len: their number).
\* The mesh is left as it was.
C11_AccessorsLenient ==
    Accessed =>
        /\ src = op.arg
        /\ IF ChannelAsExpected
           THEN LET values == op.arg.attributes[ExpectedChannel[op.name][1]].values
                IN  /\ view.len = Len(values)
                    /\ op.name # "mesh_len" => view.items = values
           ELSE view = NoView

\* a UV channel of two elements under another variant, read as empty
C11_Witness ==
    /\ Accessed
    /\ op.name = "mesh_uvs"
    /\ HasAttribute(op.arg, ATTRIBUTE_UV_0)
    /\ op.arg.attributes[ATTRIBUTE_UV_0].enc = "Float32x3"
    /\ Len(op.arg.attributes[ATTRIBUTE_UV_0].values) = MaxVerts
    /\ view = NoView


(***************************************************************************)
(* Properties of mesh_with_transform and mesh_with_skinned_transform, over *)
(* the states a call has just produced: op.arg is the mesh as passed, src  *)
(* the same mesh after the call, out what the call returned.               *)
(***************************************************************************)
Transformed == op.done /\ op.name = "mesh_with_transform"

Skinned == op.done /\ op.name = "mesh_with_skinned_transform"

Cross(a, b) ==
    <<a[2] * b[3] - a[3] * b[2], a[3] * b[1] - a[1] * b[3], a[1] * b[2] - a[2] * b[1]>>

\* C4 as stated: when a joint of the skin binding is not resolved by the
\* joint query, mesh_with_skinned_transform returns none.
C4_UnresolvedJointGivesNone ==
    (Skinned /\ \E i \in 1..Len(op.skinned_mesh.joints) :
                    op.skinned_mesh.joints[i] \notin DOMAIN op.joint_query)
        => out.tag = "None"

\* C5: mesh_with_transform returns a mesh with the vertex count, the index
\* buffer and every channel other than position and normal of its
\* argument, and leaves the argument as it was.
C5_TransformPreservesTheRest ==
    Transformed =>
        /\ out.tag = "Some"
        /\ src = op.arg
        /\ out.mesh.indices = op.arg.indices
        /\ Channels(out.mesh) = Channels(op.arg)
        /\ count_vertices(out.mesh) = count_vertices(op.arg)
        /\ \A a \in Channels(op.arg) :
              /\ out.mesh.attributes[a].enc = op.arg.attributes[a].enc
              /\ Len(out.mesh.attributes[a].values) = Len(op.arg.attributes[a].values)
              /\ a \notin {ATTRIBUTE_POSITION, ATTRIBUTE_NORMAL}
                    => out.mesh.attributes[a] = op.arg.attributes[a]

C5_Witness ==
    /\ Transformed
    /\ count_vertices(op.arg) = MaxVerts
    /\ Len(op.arg.indices.v) > 0
    /\ HasAttribute(op.arg, ATTRIBUTE_UV_0) /\ HasAttribute(op.arg, ATTRIBUTE_JOINT_INDEX)
    /\ out.tag = "Some"
    /\ \A i \in 1..MaxVerts : mesh_positions(out.mesh)[i] # mesh_positions(op.arg)[i]
    /\ mesh_normals(out.mesh) # mesh_normals(op.arg)
    /\ src = op.arg

\* every vertex of the mesh is bound to joint 0 with weight 1
BoundToJointZero(mesh) ==
    /\ HasAttribute(mesh, ATTRIBUTE_JOINT_WEIGHT)
    /\ HasAttribute(mesh, ATTRIBUTE_JOINT_INDEX)
    /\ Len(mesh_joint_weights(mesh)) = count_vertices(mesh)
    /\ Len(mesh_joint_indices(mesh)) = count_vertices(mesh)
    /\ \A i \in 1..count_vertices(mesh) :
          /\ mesh_joint_weights(mesh)[i] = Elem(<<1, 0, 0, 0>>, 1)
          /\ mesh_joint_indices(mesh)[i] = Elem(<<0, 0, 0, 0>>, 1)

\* C8 as stated: with a single, resolved joint whose skin matrix is the
\* matrix of a transform T, and a mesh of equal-length channels whose
\* vertices are all bound to that joint with weight 1,
\* mesh_with_skinned_transform returns what mesh_with_transform returns
\* for T.
C8_SingleJointEqualsTransform ==
    (/\ Skinned
     /\ Len(op.skinned_mesh.joints) = 1
     /\ op.skinned_mesh.joints[1] \in DOMAIN op.joint_query
     /\ op.skinned_mesh.inverse_bindposes \in DOMAIN op.inverse_bindposes
     /\ EqualLengths(op.arg) /\ BoundToJointZero(op.arg)) =>
        \A t \in Transforms :
            MatMul(op.joint_query[op.skinned_mesh.joints[1]],
                   op.inverse_bindposes[op.skinned_mesh.inverse_bindposes][1])
                = compute_matrix(t)
            => out = mesh_with_transform(op.arg, t).ret

\* the joints of the skin binding all resolve and the call returned a mesh
SkinResolved ==
    /\ Skinned
    /\ out.tag = "Some"
    /\ op.skinned_mesh.inverse_bindposes \in DOMAIN op.inverse_bindposes
    /\ \A i \in 1..Len(op.skinned_mesh.joints) :
          op.skinned_mesh.joints[i] \in DOMAIN op.joint_query

PositionsAndNormalsKept ==
    /\ out.tag = "Some"
    /\ Channels(out.mesh) = Channels(op.arg)
    /\ \A a \in Channels(op.arg) \cap {ATTRIBUTE_POSITION, ATTRIBUTE_NORMAL} :
          out.mesh.attributes[a] = op.arg.attributes[a]

LookupFails ==
    \/ op.skinned_mesh.inverse_bindposes \notin DOMAIN op.inverse_bindposes
    \/ \E i \in 1..Len(op.skinned_mesh.joints) :
          /\ i <= Len(op.inverse_bindposes[op.skinned_mesh.inverse_bindposes])
          /\ op.skinned_mesh.joints[i] \notin DOMAIN op.joint_query

SkinnedVertices ==
    1..Min(Len(mesh_positions(op.arg)),
           Min(Len(mesh_joint_indices(op.arg)), Len(mesh_joint_weights(op.arg))))

\* the point p taken through inverse bind pose j and then through the world
\* matrix of joint j (j counted from 0)
ThroughJoint(j, p) ==
    transform_point3(op.joint_query[op.skinned_mesh.joints[j + 1]],
        transform_point3(op.inverse_bindposes[op.skinned_mesh.inverse_bindposes][j + 1], p))

\* the sum over the four (joint index, weight) pairs of vertex i of the
\* weight times the position taken through the joint
BlendedPosition(i) ==
    LET w  == mesh_joint_weights(op.arg)[i]
        ix == mesh_joint_indices(op.arg)[i]
        q  == Tabulate(4, LAMBDA k : ThroughJoint(ix.n[k], mesh_positions(op.arg)[i]))
        dd == q[1].d * q[2].d * q[3].d * q[4].d
    IN  Canon(Tabulate(3, LAMBDA c :
                  w.n[1] * q[1].n[c] * (dd \div q[1].d) + w.n[2] * q[2].n[c] * (dd \div q[2].d)
                + w.n[3] * q[3].n[c] * (dd \div q[3].d) + w.n[4] * q[4].n[c] * (dd \div q[4].d)),
              w.d * dd, 1)

\* C9: every skinned vertex is placed at the sum over its four (joint index,
\* weight) pairs of the weight, as given, times its position taken through
\* the inverse bind pose and then the world matrix of that joint.
C9_PositionIsWeightedBlend ==
    SkinResolved =>
        \A i \in SkinnedVertices : mesh_positions(out.mesh)[i] = BlendedPosition(i)

\* two identity-bound joints, the second translated by (0,1,0), a vertex
\* weighted 0.5/0.5 between them: it moves by (0,0.5,0)
C9_Witness ==
    /\ SkinResolved
    /\ op.skinned_mesh.joints = <<1, 2>>
    /\ op.inverse_bindposes[op.skinned_mesh.inverse_bindposes] = <<IDENTITY, IDENTITY>>
    /\ op.joint_query[1] = IDENTITY
    /\ op.joint_query[2] = compute_matrix(Translation(0, 1, 0))
    /\ \E i \in SkinnedVertices :
          LET p == mesh_positions(op.arg)[i]
          IN  /\ mesh_joint_weights(op.arg)[i] = Elem(<<1, 1, 0, 0>>, 2)
              /\ mesh_joint_indices(op.arg)[i] = Elem(<<0, 1, 0, 0>>, 1)
              /\ p.d = 1
              /\ mesh_positions(out.mesh)[i]
                    = Canon(<<2 * p.n[1], 2 * p.n[2] + 1, 2 * p.n[3]>>, 2, 1)

\* the determinant of the upper-left 3x3 of a matrix
UpperLeftDet(m) == Dot(m.c[1], Cross(m.c[2], m.c[3]))

\* C10: every normal returned by mesh_with_transform is the zero vector when
\* the upper-left 3x3 A of the transform's matrix is singular or the input
\* normal n is zero, and otherwise has length 1 and the direction of the
\* inverse-transpose of A applied to n (A transposed takes it back to a
\* positive multiple of n).
C10_NormalsUnitOrZero ==
    Transformed =>
        /\ Len(mesh_normals(out.mesh)) = Len(mesh_normals(op.arg))
        /\ \A i \in 1..Len(mesh_normals(op.arg)) :
              LET n    == mesh_normals(op.arg)[i]
                  m    == mesh_normals(out.mesh)[i]
                  A    == compute_matrix(op.transform)
                  back == <<Dot(A.c[1], m.n), Dot(A.c[2], m.n), Dot(A.c[3], m.n)>>
              IN  IF UpperLeftDet(A) = 0 \/ n.n = <<0, 0, 0>>
                  THEN m = ZERO
                  ELSE /\ m.fin
                       /\ Dot(m.n, m.n) = m.d * m.d * m.r
                       /\ Cross(back, n.n) = <<0, 0, 0>>
                       /\ Dot(back, n.n) > 0

\* a non-uniform scale: one normal turned and renormalised, one zero normal
C10_Witness ==
    /\ Transformed
    /\ op.transform = Scale(1, 2, 1)
    /\ \E i \in 1..Len(mesh_normals(op.arg)) :
          /\ mesh_normals(op.arg)[i] = Vec3(1, 1, 0)
          /\ mesh_normals(out.mesh)[i] = Canon(<<2, 1, 0>>, 1, 5)
    /\ \E i \in 1..Len(mesh_normals(op.arg)) :
          /\ mesh_normals(op.arg)[i] = ZERO
          /\ mesh_normals(out.mesh)[i] = ZERO

\* the length of channel a when it is stored as enc, 0 otherwise
TypedLen(mesh, a, enc) ==
    IF a \in Channels(mesh) /\ mesh.attributes[a].enc = enc
    THEN Len(mesh.attributes[a].values)
    ELSE 0

\* the smallest of the lengths of the position, joint-index and
\* joint-weight channels of the mesh passed
SkinnedCount ==
    Min(TypedLen(op.arg, ATTRIBUTE_POSITION, "Float32x3"),
        Min(TypedLen(op.arg, ATTRIBUTE_JOINT_INDEX, "Uint16x4"),
            TypedLen(op.arg, ATTRIBUTE_JOINT_WEIGHT, "Float32x4")))

\* C16: with the joints resolved, exactly the first SkinnedCount positions
\* are skinned; the positions and the normals of the vertices after them
\* are as in the input, like every other channel; so a mesh without a
\* position, joint-index or joint-weight channel comes back as it was,
\* normals included.
C16_SkinnedCountIsShortestChannel ==
    SkinResolved =>
        /\ Channels(out.mesh) = Channels(op.arg)
        /\ \A a \in Channels(op.arg) :
              /\ out.mesh.attributes[a].enc = op.arg.attributes[a].enc
              /\ Len(out.mesh.attributes[a].values) = Len(op.arg.attributes[a].values)
              /\ a \notin {ATTRIBUTE_POSITION, ATTRIBUTE_NORMAL}
                    => out.mesh.attributes[a] = op.arg.attributes[a]
              /\ a \in {ATTRIBUTE_POSITION, ATTRIBUTE_NORMAL}
                    => \A i \in 1..Len(op.arg.attributes[a].values) :
                          i > SkinnedCount
                              => out.mesh.attributes[a].values[i]
                                    = op.arg.attributes[a].values[i]
        /\ \A i \in 1..SkinnedCount :
              out.mesh.attributes[ATTRIBUTE_POSITION].values[i] = BlendedPosition(i)
        /\ SkinnedCount = 0 => out.mesh = op.arg

\* a mesh without positions, with normals that are not of length 1 and a
\* joint that scales: it comes back as it was
C16_Witness ==
    /\ SkinResolved
    /\ op.skinned_mesh.joints = <<1>>
    /\ op.joint_query[1] = compute_matrix(Scale(1, 2, 1))
    /\ ATTRIBUTE_POSITION \notin Channels(op.arg)
    /\ BoundToJointZero(op.arg)
    /\ Len(mesh_normals(op.arg)) = MaxVerts
    /\ \E i \in 1..MaxVerts : mesh_normals(op.arg)[i] = Vec3(1, 1, 0)
    /\ out.mesh = op.arg

====
